---- MODULE Spec2Model ----
(***************************************************************************)
(* EverVoice: the recording page (Home), the audio recorder hook, the      *)
(* duration hook, the recording store and the history store, modelled as   *)
(* one state machine.                                                       *)
(*                                                                         *)
(* Scheduling model: JavaScript runs one synchronous segment at a time.    *)
(* Every action below is one such segment (an event handler, a timer       *)
(* callback, or the continuation of an awaited call together with the      *)
(* microtask continuations that follow it), followed by the React commits  *)
(* it causes: Flush re-runs every effect whose dependencies changed, in    *)
(* hook order, until no dependency changes any more.  The desktop (Tauri)  *)
(* environment is modelled: isTauri() is true.                             *)
(***************************************************************************)
EXTENDS Integers, FiniteSets, Sequences, TLC

(***************************************************************************)
(* Bounds of the model                                                     *)
(***************************************************************************)
\* number of device acquisitions (getUserMedia) that may succeed
MaxSessions == 2
\* number of start() calls that may wait for getUserMedia at the same time
MaxPending == 1
\* ticks of the model's minute; the source multiplies minutes by 60. Like 60, it
\* is a multiple of 5, so that 80% of a budget is a whole number of ticks
MinuteTicks == 5
\* the tick counter is not advanced beyond this many ticks over the budget
MaxOverrun == 1
\* number of start() calls that may wait for getUserMedia at the same time where
\* a start is triggered during another
MaxOverlapping == 2
\* number of hotkey events whose handler may wait for focusWindow() at the same time
MaxHotkeys == 1
\* number of distinct texts transcribeAudio returns
MaxTexts == 2

\* number of data chunks a recorder's dataavailable events may buffer
MaxChunks == 1
\* the last reading of Date.now() the model lets the clock reach
MaxClock == 2
\* clock readings per second where the interval timer follows the clock: the
\* timer's period of 1000 ms is this many readings
Second == 2
\* the last reading the clock reaches where the interval timer follows it
MaxTime == 5

\* the null reference
Null == 0

\* largest settings.maxDuration (minutes) the settings dialog is made to store
MaxMinutes == 2
\* settings.maxDuration values: updateSettings accepts any value above 0
MaxDurations == 1..MaxMinutes

SessionIds == 1..MaxSessions
Texts == 1..MaxTexts
\* the markdown summaries summarizeText returns, distinct from every transcription
Summaries == {10 + t : t \in Texts}
\* the texts transcribe_audio may return for the audio of session path: texts are
\* named in the order of their first appearance, so session 1 yields text 1
TextsFor(path) == {t \in Texts : t <= path}
\* the summary summarize_text returns for a text
SummaryOf(text) == 10 + text
MaxElapsed == MaxMinutes * MinuteTicks + MaxOverrun

\* what getUserMedia is made to reject with: the name of a DOMException;
\* "TypeError" stands for an error that is no DOMException
AcquireErrors == {"NotAllowedError"}
OtherAcquireErrors == {"NotFoundError", "NotSupportedError", "AbortError", "TypeError"}
\* errorType values transcribe_audio is made to report; "null" is a missing type
ReportedErrorTypes == {"network_error", "null"}

VARIABLES
  store,        \* useRecordingStore: the recording store's fields
  hist,         \* useHistoryStore: recordings, selectedRecordingId,
                \* playingRecordingId, isLoading, error
  del,          \* the deleteRecording call in flight: where it waits, and its id
  db,           \* the backend's persisted history (what get_history returns)
  rec,          \* useAudioRecorder: state, permissionState, error, audioResult, refs
  mr,           \* the MediaRecorder objects created so far, by session id, each with
                \* the blob size and duration of the audioResult its onstop made
  now,          \* Date.now()
  streams,      \* media streams whose tracks have not been stopped
  pend,         \* start() calls waiting for getUserMedia, by caller
  tmr,          \* useRecordingDuration: timerRef, isPausedRef, autoStopTriggeredRef,
                \* and the clock reading at which the interval fires next
  fs,           \* useFileStorage: isSaving and the saveRecording calls in flight
  proc,         \* processRecording: isProcessingRef and the run in flight
  maxDuration,  \* useSettingsStore: settings.maxDuration
  ids,          \* identifiers handed out so far: capture sessions, history entries
  hk,           \* hotkey handlers waiting for focusWindow(): for each, as an
                \* observation, the recordingState at the time of its event
  obs           \* observation: counters and the last event, never read by the program

vars == <<store, hist, del, db, rec, mr, now, streams, pend, tmr, fs, proc, maxDuration, ids,
          hk, obs>>

\* the whole state as one value, so that handlers and effects compose
Bundle ==
  [store |-> store, hist |-> hist, del |-> del, db |-> db, rec |-> rec, mr |-> mr, now |-> now,
   streams |-> streams, pend |-> pend, tmr |-> tmr, fs |-> fs, proc |-> proc,
   maxDuration |-> maxDuration, ids |-> ids, obs |-> obs]

(***************************************************************************)
(* Recording store                                                         *)
(***************************************************************************)
NoError == [type |-> "none", retryable |-> FALSE]

initialState ==
  [recordingState |-> "idle", elapsedSeconds |-> 0, warningTriggered |-> FALSE,
   audioResult |-> Null, filePath |-> Null,
   transcription |-> Null, transcriptionState |-> "idle", transcriptionError |-> NoError,
   summary |-> Null, summaryState |-> "idle", summaryError |-> Null,
   summarySourceText |-> Null]

setRecordingState(s, v) == [s EXCEPT !.store.recordingState = v]
incrementElapsedSeconds(s) == [s EXCEPT !.store.elapsedSeconds = @ + 1]
setWarningTriggered(s, v) == [s EXCEPT !.store.warningTriggered = v]
setAudioResult(s, v) == [s EXCEPT !.store.audioResult = v]
setFilePath(s, v) == [s EXCEPT !.store.filePath = v]
setTranscription(s, v) == [s EXCEPT !.store.transcription = v]
setTranscriptionState(s, v) == [s EXCEPT !.store.transcriptionState = v]
setTranscriptionError(s, v) == [s EXCEPT !.store.transcriptionError = v]
setSummary(s, v, src) == [s EXCEPT !.store.summary = v, !.store.summarySourceText = src]
setSummaryState(s, v) == [s EXCEPT !.store.summaryState = v]
setSummaryError(s, v) == [s EXCEPT !.store.summaryError = v]

clearSummary(s) ==
  [s EXCEPT !.store.summary = Null, !.store.summaryState = "idle",
            !.store.summaryError = Null, !.store.summarySourceText = Null]

\* clearTranscription that leaves the summary fields alone
clearTranscription_keepSummary(s) ==
  [s EXCEPT !.store.transcription = Null, !.store.transcriptionState = "idle",
            !.store.transcriptionError = NoError]

clearTranscription(s) ==
  [s EXCEPT !.store.transcription = Null, !.store.transcriptionState = "idle",
            !.store.transcriptionError = NoError,
            !.store.summary = Null, !.store.summaryState = "idle",
            !.store.summaryError = Null, !.store.summarySourceText = Null]

\* resetForNewRecording that resets the whole store, as resetRecording does
resetForNewRecording_all(s) == [s EXCEPT !.store = initialState]

resetForNewRecording(s) ==
  [s EXCEPT !.store.recordingState = "idle", !.store.elapsedSeconds = 0,
            !.store.warningTriggered = FALSE, !.store.audioResult = Null,
            !.store.filePath = Null,
            !.store.summary = Null, !.store.summaryState = "idle",
            !.store.summaryError = Null, !.store.summarySourceText = Null]

\* an observer's count of the ticks while not paused starts again with the counter
resetElapsedSeconds(s) ==
  [s EXCEPT !.store.elapsedSeconds = 0, !.store.warningTriggered = FALSE,
            !.obs.ticks = 0]

(***************************************************************************)
(* History store                                                           *)
(***************************************************************************)
\* recordings.find((r) => r.id === id)
FindRecording(recordings, id) ==
  IF \E r \in recordings : r.id = id
  THEN CHOOSE r \in recordings : r.id = id
  ELSE [id |-> Null, filePath |-> Null, durationSeconds |-> 0,
        transcription |-> Null, summary |-> Null]

\* selectRecording that keeps the live summary when the entry has none
selectRecording_keepLive(s, id) ==
  LET s1 == [s EXCEPT !.hist.selectedRecordingId = id]
      recording == FindRecording(s.hist.recordings, id)
  IN IF id = Null THEN clearSummary(s1)
     ELSE IF recording.id # Null /\ recording.summary # Null
          THEN setSummaryState(setSummary(s1, recording.summary, recording.transcription),
                               "success")
          ELSE s1

selectRecording(s, id) ==
  LET s1 == [s EXCEPT !.hist.selectedRecordingId = id]
      recording == FindRecording(s.hist.recordings, id)
  IN IF id = Null THEN clearSummary(s1)
     ELSE IF recording.id # Null /\ recording.summary # Null
          THEN setSummaryState(setSummary(s1, recording.summary, recording.transcription),
                               "success")
          ELSE clearSummary(s1)

getSelectedRecording(h) ==
  IF h.selectedRecordingId = Null
  THEN FindRecording({}, Null)
  ELSE FindRecording(h.recordings, h.selectedRecordingId)

(***************************************************************************)
(* Audio recorder hook                                                     *)
(***************************************************************************)
NoRecorder == [state |-> "none", handlers |-> FALSE, stopQueued |-> FALSE,
               blob |-> 0, duration |-> 0]

cleanup(s) ==
  LET sr == s.rec.streamRef
      rr == s.rec.mediaRecorderRef
  IN [s EXCEPT !.streams = IF sr # Null THEN @ \ {sr} ELSE @,
               !.rec.streamRef = Null,
               !.mr = IF rr # Null THEN [@ EXCEPT ![rr].handlers = FALSE] ELSE @,
               !.rec.mediaRecorderRef = Null,
               !.rec.chunks = 0,
               !.rec.startTime = 0, !.rec.pausedDuration = 0, !.rec.pauseStart = 0]

\* start() up to its await of getUserMedia
startCall(s, caller) ==
  [s EXCEPT !.rec.error = "none", !.pend[caller] = @ + 1]

\* start() after getUserMedia resolved with a stream
startGranted(s) ==
  LET n == s.ids.sessions + 1
  IN [s EXCEPT !.ids.sessions = n,
               !.streams = @ \cup {n},
               !.rec.streamRef = n,
               !.rec.permissionState = "granted",
               !.rec.mediaRecorderRef = n,
               !.mr[n] = [NoRecorder EXCEPT !.state = "recording", !.handlers = TRUE],
               !.rec.chunks = 0,
               !.rec.startTime = s.now, !.rec.pausedDuration = 0,
               !.rec.state = "recording"]

\* the type of the AudioRecorderError made from what getUserMedia rejected with
parseError(error) ==
  CASE error = "NotAllowedError" -> "permission_denied"
    [] error = "NotFoundError" -> "device_not_found"
    [] error = "NotSupportedError" -> "not_supported"
    [] error = "AbortError" -> "recorder_error"
    [] OTHER -> "unknown"

\* start() that sets the error and keeps stream and recorder references
startRejected_noCleanup(s, err) ==
  [s EXCEPT !.rec.error = parseError(err),
            !.rec.permissionState =
               IF parseError(err) = "permission_denied" THEN "denied" ELSE @]

\* start() after getUserMedia rejected with err
startRejected(s, err) ==
  LET parsedError == parseError(err)
  IN cleanup([s EXCEPT !.rec.error = parsedError,
                       !.rec.permissionState =
                          IF parsedError = "permission_denied" THEN "denied" ELSE @])

pause(s) ==
  LET r == s.rec.mediaRecorderRef
  IN IF r # Null /\ s.mr[r].state = "recording"
     THEN [s EXCEPT !.mr[r].state = "paused", !.rec.pauseStart = s.now,
                    !.rec.state = "paused"]
     ELSE s

resume(s) ==
  LET r == s.rec.mediaRecorderRef
  IN IF r # Null /\ s.mr[r].state = "paused"
     THEN [s EXCEPT !.rec.pausedDuration = @ + (s.now - s.rec.pauseStart),
                    !.rec.pauseStart = 0,
                    !.mr[r].state = "recording", !.rec.state = "recording"]
     ELSE s

\* recorder.stop() queues the stop event; the tracks are stopped at once
stop(s) ==
  LET r == s.rec.mediaRecorderRef
      sr == s.rec.streamRef
  IN IF r # Null /\ s.mr[r].state \in {"recording", "paused"}
     THEN [s EXCEPT !.rec.pausedDuration =
                       IF s.mr[r].state = "paused" /\ s.rec.pauseStart > 0
                       THEN @ + (s.now - s.rec.pauseStart) ELSE @,
                    !.mr[r].state = "inactive", !.mr[r].stopQueued = TRUE,
                    !.streams = IF sr # Null THEN @ \ {sr} ELSE @]
     ELSE s

\* recorder.ondataavailable of any recorder, for data of size above 0
ondataavailable(s) == [s EXCEPT !.rec.chunks = @ + 1]

\* recorder.onstop of recorder i: the audioResult it sets is i, with the blob
\* made of the buffered chunks and the duration computed from the clock
onstop(s, i) ==
  LET totalTime == s.now - s.rec.startTime - s.rec.pausedDuration
  IN [s EXCEPT !.mr[i].stopQueued = FALSE,
               !.mr[i].blob = s.rec.chunks, !.mr[i].duration = totalTime,
               !.rec.audioResult = i, !.rec.state = "stopped"]

\* recorder.onerror of recorder i
onerror(s, i) ==
  LET s1 == cleanup([s EXCEPT !.rec.error = "unknown"])
  IN [s1 EXCEPT !.mr[i].state = "inactive", !.rec.state = "idle"]

reset(s) ==
  LET s1 == cleanup(s)
  IN [s1 EXCEPT !.rec.error = "none", !.rec.audioResult = Null, !.rec.state = "idle"]

retryPermission(s) ==
  startCall([s EXCEPT !.rec.error = "none", !.rec.permissionState = "unknown"], "retry")

(***************************************************************************)
(* Duration hook                                                           *)
(***************************************************************************)
maxDurationSeconds(s) == s.maxDuration * MinuteTicks
\* a warning threshold that is passed only above 80% of the budget
showWarning_above(s) == s.store.elapsedSeconds * 10 > maxDurationSeconds(s) * 8

\* elapsedSeconds >= maxDurationSeconds * 0.8
showWarning(s) == s.store.elapsedSeconds * 10 >= maxDurationSeconds(s) * 8
maxDurationReached(s) == s.store.elapsedSeconds >= maxDurationSeconds(s)
\* Math.max(0, maxDurationSeconds - elapsedSeconds)
remainingSeconds(s) ==
  IF maxDurationSeconds(s) - s.store.elapsedSeconds > 0
  THEN maxDurationSeconds(s) - s.store.elapsedSeconds ELSE 0

clearTimer(s) == [s EXCEPT !.tmr.timerOn = FALSE, !.tmr.due = 0]

startTimer(s) ==
  [clearTimer(s) EXCEPT !.tmr.isPaused = FALSE, !.tmr.autoStopTriggered = FALSE,
                        !.tmr.timerOn = TRUE, !.tmr.due = s.now + Second,
                        !.obs.autoStops = 0]

pauseTimer(s) == [s EXCEPT !.tmr.isPaused = TRUE]
resumeTimer(s) == [s EXCEPT !.tmr.isPaused = FALSE]
stopTimer(s) == [clearTimer(s) EXCEPT !.tmr.isPaused = FALSE]

\* a setInterval callback that counts while paused, too
tick_ignoresPause(s) == incrementElapsedSeconds(s)

\* the setInterval callback
tick(s) == IF ~s.tmr.isPaused THEN incrementElapsedSeconds(s) ELSE s

(***************************************************************************)
(* processRecording (Home)                                                 *)
(***************************************************************************)
IdleRun == [isProcessing |-> FALSE, pc |-> "idle", path |-> Null, dur |-> 0,
            text |-> Null, gen |-> Null, newId |-> Null, selId |-> Null]

\* setRecordingState('idle'); reset();
backToIdle(s) == reset(setRecordingState(s, "idle"))

\* the run ends: isProcessingRef.current = false
endRun(s) == [s EXCEPT !.proc = IdleRun]

\* processRecording without the isProcessingRef check
processRecording_noGuard(s, path, dur) ==
  LET s1 == setTranscriptionError(setTranscriptionState(s, "transcribing"), NoError)
  IN [s1 EXCEPT !.proc = [IdleRun EXCEPT !.isProcessing = TRUE, !.pc = "transcribe",
                                         !.path = path, !.dur = dur],
                !.obs.transcribeCalls[path] = @ + 1]

\* entry of processRecording up to the call of transcribeAudio
processRecording(s, path, dur) ==
  IF s.proc.isProcessing
  THEN s
  ELSE LET s1 == setTranscriptionError(setTranscriptionState(s, "transcribing"), NoError)
       IN [s1 EXCEPT !.proc = [IdleRun EXCEPT !.isProcessing = TRUE, !.pc = "transcribe",
                                              !.path = path, !.dur = dur],
                     !.obs.transcribeCalls[path] = @ + 1]

\* Phase 2 up to the call of summarizeText
startSummary(s) ==
  LET s1 == setSummaryError(setSummaryState(s, "loading"), Null)
  IN [s1 EXCEPT !.proc.pc = "summarize"]

\* addRecording up to its await of saveRecordingHistory
addRecording(s) ==
  [s EXCEPT !.hist.isLoading = TRUE, !.hist.error = FALSE, !.proc.pc = "hist_save"]

\* onTranscribed whose failure branch leaves the capture state as it is
onTranscribed_noReset(s, response) ==
  IF ~response.success \/ response.text = Null
  THEN LET t == IF response.errorType = "null" THEN "unknown" ELSE response.errorType
           e == [type |-> t,
                 retryable |-> response.errorType \in {"network_error", "rate_limit_exceeded"}]
       IN endRun(setTranscriptionState(setTranscriptionError(s, e), "error"))
  ELSE LET s1 == setTranscriptionState(setTranscription(s, response.text), "success")
       IN addRecording([s1 EXCEPT !.proc.text = response.text])

\* transcribeAudio resolved with a response
onTranscribed(s, response) ==
  IF ~response.success \/ response.text = Null
  THEN LET t == IF response.errorType = "null" THEN "unknown" ELSE response.errorType
           e == [type |-> t,
                 retryable |-> response.errorType \in {"network_error", "rate_limit_exceeded"}]
           s1 == setTranscriptionState(setTranscriptionError(s, e), "error")
       IN endRun(backToIdle(s1))
  ELSE LET s1 == setTranscriptionState(setTranscription(s, response.text), "success")
       IN addRecording([s1 EXCEPT !.proc.text = response.text])

\* transcribeAudio threw
onTranscribeThrown(s) ==
  LET e == [type |-> "unknown", retryable |-> TRUE]
      s1 == setTranscriptionState(setTranscriptionError(s, e), "error")
  IN endRun(backToIdle(s1))

\* loadHistory up to its await of getHistory
loadHistory(s) == [s EXCEPT !.hist.isLoading = TRUE, !.hist.error = FALSE]

\* loadHistory after getHistory resolved or rejected
loadHistoryDone(s, ok) ==
  IF ok
  THEN [s EXCEPT !.hist.recordings = s.db, !.hist.isLoading = FALSE]
  ELSE [s EXCEPT !.hist.error = TRUE, !.hist.isLoading = FALSE]

\* no deleteRecording call is in flight
NoDelete == [pc |-> "idle", id |-> Null]

\* deleteRecording up to its await of deleteRecordingHistory
deleteRecording(s, id) ==
  [s EXCEPT !.hist.isLoading = TRUE, !.hist.error = FALSE,
            !.del = [pc |-> "delete", id |-> id]]

\* deleteRecording after deleteRecordingHistory resolved (the backend removed the
\* entry) or rejected: selection and playback of the entry end, then loadHistory
\* runs up to its await
onDeleted(s, ok) ==
  LET id == s.del.id
  IN IF ok
     THEN LET s1 == [s EXCEPT !.db = {r \in @ : r.id # id}]
              s2 == IF s1.hist.selectedRecordingId = id
                    THEN clearSummary([s1 EXCEPT !.hist.selectedRecordingId = Null])
                    ELSE s1
              s3 == IF s2.hist.playingRecordingId = id
                    THEN [s2 EXCEPT !.hist.playingRecordingId = Null]
                    ELSE s2
          IN loadHistory([s3 EXCEPT !.del.pc = "reload"])
     ELSE [s EXCEPT !.hist.error = TRUE, !.hist.isLoading = FALSE, !.del = NoDelete]

\* deleteRecording after its loadHistory returned
onDeleteReloaded(s, ok) == [loadHistoryDone(s, ok) EXCEPT !.del = NoDelete]

startPlayback(s, id) == [s EXCEPT !.hist.playingRecordingId = id]
stopPlayback(s) == [s EXCEPT !.hist.playingRecordingId = Null]

\* addRecording after saveRecordingHistory resolved (new entry) or rejected
onHistorySaved(s, ok) ==
  IF ok
  THEN LET id == s.ids.created + 1
           entry == [id |-> id, filePath |-> s.proc.path, durationSeconds |-> s.proc.dur,
                     transcription |-> s.proc.text, summary |-> Null]
       IN loadHistory([s EXCEPT !.db = @ \cup {entry}, !.ids.created = id,
                                !.proc.newId = id, !.proc.pc = "hist_load"])
  ELSE startSummary([s EXCEPT !.hist.error = TRUE, !.hist.isLoading = FALSE])

\* addRecording after its loadHistory: select the new entry; then Phase 2 begins
onHistoryLoaded(s, ok) ==
  LET s1 == loadHistoryDone(s, ok)
  IN startSummary([s1 EXCEPT !.hist.selectedRecordingId = s.proc.newId])

\* a success tail that releases the guard and leaves the capture state as it is
finishRun_noReset(s) == endRun(s)

\* the success path's last segment: toast, tab switch, back to idle, finally
finishRun(s) == endRun(backToIdle(s))

\* summarizeText resolved with the generated summary
onSummarized(s, generatedSummary) ==
  LET s1 == setSummaryState(setSummary(s, generatedSummary, s.proc.text), "success")
      currentSelectedId == s1.hist.selectedRecordingId
  IN IF currentSelectedId # Null
     THEN [s1 EXCEPT !.proc.pc = "persist", !.proc.gen = generatedSummary,
                     !.proc.selId = currentSelectedId]
     ELSE finishRun(s1)

\* onSummarizeThrown that also takes the transcription back
onSummarizeThrown_rollback(s) ==
  LET s1 == setSummaryError(setSummaryState(s, "error"), 1)
  IN endRun(backToIdle(setTranscriptionState(setTranscription(s1, Null), "idle")))

\* summarizeText threw
onSummarizeThrown(s) ==
  LET s1 == setSummaryError(setSummaryState(s, "error"), 1)
  IN endRun(backToIdle(s1))

\* onSummaryPersisted whose failure branch reports a summary error
onSummaryPersisted_error(s, ok) ==
  IF ok
  THEN loadHistory([s EXCEPT
         !.db = {IF r.id = s.proc.selId THEN [r EXCEPT !.summary = s.proc.gen] ELSE r
                   : r \in s.db},
         !.proc.pc = "persist_load"])
  ELSE finishRun(setSummaryError(setSummaryState(s, "error"), 1))

\* updateHistorySummary resolved (the backend stored the summary) or rejected
onSummaryPersisted(s, ok) ==
  IF ok
  THEN loadHistory([s EXCEPT
         !.db = {IF r.id = s.proc.selId THEN [r EXCEPT !.summary = s.proc.gen] ELSE r
                   : r \in s.db},
         !.proc.pc = "persist_load"])
  ELSE finishRun(s)

\* the loadHistory that follows updateHistorySummary
onPersistReloaded(s, ok) == finishRun(loadHistoryDone(s, ok))

(***************************************************************************)
(* Home: handlers                                                          *)
(***************************************************************************)
\* handleStart without selectRecording(null)
handleStart_keepSelection(s) ==
  IF s.store.recordingState = "paused"
  THEN resumeTimer(resume(s))
  ELSE startCall(resetElapsedSeconds(setAudioResult(setFilePath(
                   clearTranscription(s), Null), Null)), "handleStart")

handleStart(s) ==
  LET s1 == selectRecording(s, Null)
  IN IF s.store.recordingState = "paused"
     THEN resumeTimer(resume(s1))
     ELSE startCall(resetElapsedSeconds(setAudioResult(setFilePath(
                      clearTranscription(s1), Null), Null)), "handleStart")

handlePause(s) == pauseTimer(pause(s))

handleStop(s) == stopTimer(stop(s))

\* a hotkey handler that starts a recording from 'idle' only
handleHotkeyTriggered_noStopped(s) ==
  LET currentState == s.store.recordingState
  IN IF currentState = "idle" THEN handleStart(s)
     ELSE IF currentState \in {"recording", "paused"} THEN handleStop(s)
     ELSE s

\* handleHotkeyTriggered, after focusWindow() resolved
handleHotkeyTriggered(s) ==
  LET currentState == s.store.recordingState
  IN IF currentState \in {"idle", "stopped"} THEN handleStart(s)
     ELSE IF currentState \in {"recording", "paused"} THEN handleStop(s)
     ELSE s

\* saveRecording up to its first await
saveRecording(s, audio, dur) ==
  [s EXCEPT !.fs.isSaving = TRUE, !.fs.saves = Append(@, [audio |-> audio, dur |-> dur])]

\* saveRecording call k returned to saveAndProcess: finally, then the continuation
onSaved(s, k, ok) ==
  LET sv == s.fs.saves[k]
      s1 == [s EXCEPT !.fs.isSaving = FALSE,
                      !.fs.saves = SubSeq(@, 1, k - 1) \o SubSeq(@, k + 1, Len(@))]
  IN IF ok
     THEN processRecording(
            setFilePath([s1 EXCEPT !.obs.saved = @ \cup {sv.audio}], sv.audio),
            sv.audio, sv.dur)
     ELSE s1

(***************************************************************************)
(* Home: what the page displays                                            *)
(***************************************************************************)
\* useHistoryStore(getSelectedRecording); id Null stands for no selected recording
selectedRecording(s) == getSelectedRecording(s.hist)

\* selectedRecording?.transcription ?? transcription
displayTranscription(s) ==
  LET sel == selectedRecording(s)
  IN IF sel.id # Null /\ sel.transcription # Null THEN sel.transcription
     ELSE s.store.transcription

\* displayTranscriptionState that always shows the live state
displayTranscriptionState_live(s) == s.store.transcriptionState

displayTranscriptionState(s) ==
  LET sel == selectedRecording(s)
  IN IF sel.id # Null
     THEN (IF sel.transcription # Null THEN "success" ELSE "idle")
     ELSE s.store.transcriptionState

\* the error prop of the transcription display
displayTranscriptionError(s) ==
  IF selectedRecording(s).id # Null THEN NoError ELSE s.store.transcriptionError

hasFreshSummary(s) == s.store.summary # Null /\ s.store.summaryState = "success"

hasSelectedRecordingWithSummary(s) ==
  selectedRecording(s).id # Null /\ selectedRecording(s).summary # Null

displaySummary(s) ==
  IF hasFreshSummary(s) THEN s.store.summary
  ELSE IF hasSelectedRecordingWithSummary(s) THEN selectedRecording(s).summary
  ELSE Null

displaySummaryState(s) ==
  IF hasFreshSummary(s) THEN s.store.summaryState
  ELSE IF hasSelectedRecordingWithSummary(s) THEN "success"
  ELSE s.store.summaryState

displaySummaryError(s) ==
  IF hasFreshSummary(s) THEN s.store.summaryError
  ELSE IF hasSelectedRecordingWithSummary(s) THEN Null
  ELSE s.store.summaryError

(***************************************************************************)
(* Effects.  r is the render an effect closed over, s the state it acts on *)
(***************************************************************************)
\* thresholdEffect without the warning branch
thresholdEffect_noWarning(r, s) ==
  IF maxDurationReached(r) /\ ~s.tmr.autoStopTriggered
  THEN handleStop(clearTimer([s EXCEPT !.tmr.autoStopTriggered = TRUE,
                                       !.obs.autoStops = @ + 1]))
  ELSE s

\* useRecordingDuration: warning and auto-stop thresholds
thresholdEffect(r, s) ==
  LET s1 == IF showWarning(r) /\ ~r.store.warningTriggered
            THEN setWarningTriggered(s, TRUE) ELSE s
  IN IF maxDurationReached(r) /\ ~s1.tmr.autoStopTriggered
     THEN handleStop(clearTimer([s1 EXCEPT !.tmr.autoStopTriggered = TRUE,
                                           !.obs.autoStops = @ + 1]))
     ELSE s1

\* Home: sync recorder state with store
syncStateEffect(r, s) == setRecordingState(s, r.rec.state)

\* Home: sync audio result with store
syncAudioEffect(r, s) ==
  IF r.rec.audioResult # Null THEN setAudioResult(s, r.rec.audioResult) ELSE s

\* saveAndProcess without the isSaving check
saveEffect_noSavingCheck(r, s) ==
  IF /\ r.rec.state = "stopped"
     /\ r.rec.audioResult # Null
     /\ r.store.filePath = Null
     /\ ~s.proc.isProcessing
  THEN saveRecording(s, r.rec.audioResult, r.store.elapsedSeconds)
  ELSE s

\* Home: saveAndProcess
saveEffect(r, s) ==
  IF /\ r.rec.state = "stopped"
     /\ r.rec.audioResult # Null
     /\ r.store.filePath = Null
     /\ ~r.fs.isSaving
     /\ ~s.proc.isProcessing
  THEN saveRecording(s, r.rec.audioResult, r.store.elapsedSeconds)
  ELSE s

thresholdDeps(r) == <<showWarning(r), r.store.warningTriggered, maxDurationReached(r)>>
saveDeps(r) ==
  <<r.rec.state, r.rec.audioResult, r.store.filePath, r.fs.isSaving, r.store.elapsedSeconds>>
effectDeps(r) == <<thresholdDeps(r), r.rec.state, r.rec.audioResult, saveDeps(r)>>

\* one commit: p is the previous render, r the new one; effects run in hook order
commitEffects(p, r) ==
  LET s1 == IF thresholdDeps(p) # thresholdDeps(r) THEN thresholdEffect(r, r) ELSE r
      s2 == IF p.rec.state # r.rec.state THEN syncStateEffect(r, s1) ELSE s1
      s3 == IF p.rec.audioResult # r.rec.audioResult THEN syncAudioEffect(r, s2) ELSE s2
  IN IF saveDeps(p) # saveDeps(r) THEN saveEffect(r, s3) ELSE s3

\* commits repeat until a render changes no dependency of any effect
RECURSIVE Flush(_, _, _)
Flush(p, r, fuel) ==
  IF fuel = 0 \/ effectDeps(p) = effectDeps(r) THEN r
  ELSE Flush(r, commitEffects(p, r), fuel - 1)

MaxCommits == 6

(***************************************************************************)
(* Events an observer of the pipeline sees: the collaborator results       *)
(***************************************************************************)
\* kind: what happened; arg: the value delivered; text: the run's transcribed text
NoEvent == [kind |-> "none", arg |-> Null, text |-> Null]
Event(k, a, x) == [kind |-> k, arg |-> a, text |-> x]

(***************************************************************************)
(* Initial state: the page is mounted, nothing recorded, empty history     *)
(***************************************************************************)
Init ==
  /\ store = initialState
  /\ hist = [recordings |-> {}, selectedRecordingId |-> Null,
             playingRecordingId |-> Null, isLoading |-> FALSE, error |-> FALSE]
  /\ del = NoDelete
  /\ db = {}
  /\ rec = [state |-> "idle", permissionState |-> "unknown", error |-> "none",
            audioResult |-> Null, streamRef |-> Null, mediaRecorderRef |-> Null,
            chunks |-> 0, startTime |-> 0, pausedDuration |-> 0, pauseStart |-> 0]
  /\ mr = [i \in SessionIds |-> NoRecorder]
  /\ now = 0
  /\ streams = {}
  /\ pend = [handleStart |-> 0, retry |-> 0]
  /\ tmr = [timerOn |-> FALSE, isPaused |-> FALSE, autoStopTriggered |-> FALSE, due |-> 0]
  /\ fs = [isSaving |-> FALSE, saves |-> <<>>]
  /\ proc = IdleRun
  /\ maxDuration \in MaxDurations
  /\ ids = [sessions |-> 0, created |-> 0]
  /\ hk = <<>>
  /\ obs = [event |-> NoEvent, autoStops |-> 0, ticks |-> 0,
            transcribeCalls |-> [i \in SessionIds |-> 0], saved |-> {}]

(***************************************************************************)
(* Actions: one synchronous segment, then the commits it causes            *)
(***************************************************************************)
\* the segment took Bundle to s2; ev is what an observer saw of it
Commit(ev, s2) ==
  \E f \in {Flush(Bundle, [s2 EXCEPT !.obs.event = ev], MaxCommits)} :
     /\ store' = f.store /\ hist' = f.hist /\ del' = f.del /\ db' = f.db /\ rec' = f.rec
     /\ mr' = f.mr /\ now' = f.now /\ streams' = f.streams /\ pend' = f.pend /\ tmr' = f.tmr
     /\ fs' = f.fs /\ proc' = f.proc /\ maxDuration' = f.maxDuration /\ ids' = f.ids
     /\ obs' = f.obs

\* a segment that is not the hotkey handler's
Step(ev, s2) == Commit(ev, s2) /\ hk' = hk

Pending == pend.handleStart + pend.retry

\* RecordingControls: the Start / Resume button
ClickStart ==
  /\ store.recordingState \in {"idle", "paused"}
  /\ Pending < MaxPending
  /\ Step(Event("start", hist.selectedRecordingId, Null), handleStart(Bundle))

\* RecordingControls: the Pause button
ClickPause ==
  /\ store.recordingState = "recording"
  /\ Step(Event("pause_click", Null, Null), handlePause(Bundle))

\* RecordingControls: the Stop button
ClickStop ==
  /\ store.recordingState \in {"recording", "paused"}
  /\ Step(Event("stop_click", Null, Null), handleStop(Bundle))

\* the global hotkey fired
Hotkey ==
  /\ Pending < MaxPending
  /\ Step(NoEvent, handleHotkeyTriggered(Bundle))

\* the global hotkey event arrived: handleHotkeyTriggered runs up to its await
\* of focusWindow()
HotkeyPressed ==
  /\ Len(hk) < MaxHotkeys
  /\ Commit(NoEvent, Bundle)
  /\ hk' = Append(hk, store.recordingState)

\* focusWindow() resolved: the rest of handleHotkeyTriggered
FocusReturned ==
  /\ hk # <<>>
  /\ Pending < MaxPending
  /\ Commit(Event("hotkey", Head(hk), Null), handleHotkeyTriggered(Bundle))
  /\ hk' = Tail(hk)

\* the Retry Permission button, shown while permissionState is denied
ClickRetryPermission ==
  /\ rec.permissionState = "denied"
  /\ Pending < MaxPending
  /\ Step(NoEvent, retryPermission(Bundle))

\* getUserMedia resolved for a start() called by handleStart or retryPermission
AcquireGranted ==
  \E caller \in {"handleStart", "retry"} :
    /\ pend[caller] > 0
    /\ ids.sessions < MaxSessions
    /\ LET s1 == startGranted([Bundle EXCEPT !.pend[caller] = @ - 1])
       IN Step(Event("granted", caller, Null),
               IF caller = "handleStart" THEN startTimer(s1) ELSE s1)

\* getUserMedia rejected
AcquireRejected ==
  \E caller \in {"handleStart", "retry"}, e \in AcquireErrors :
    /\ pend[caller] > 0
    /\ LET s1 == startRejected([Bundle EXCEPT !.pend[caller] = @ - 1], e)
       IN Step(Event("rejected", caller, Null),
               IF caller = "handleStart" THEN startTimer(s1) ELSE s1)

\* getUserMedia rejected with something else than a denied permission
AcquireFailed ==
  \E caller \in {"handleStart", "retry"}, e \in OtherAcquireErrors :
    /\ pend[caller] > 0
    /\ LET s1 == startRejected([Bundle EXCEPT !.pend[caller] = @ - 1], e)
       IN Step(Event("rejected", caller, Null),
               IF caller = "handleStart" THEN startTimer(s1) ELSE s1)

\* the stop event of a MediaRecorder whose onstop handler is still attached
RecorderStopped ==
  \E i \in SessionIds :
    /\ mr[i].stopQueued /\ mr[i].handlers
    /\ Step(NoEvent, onstop(Bundle, i))

\* the error event of a live MediaRecorder whose onerror handler is attached
RecorderFailed ==
  \E i \in SessionIds :
    /\ mr[i].handlers /\ mr[i].state \in {"recording", "paused"}
    /\ Step(Event("recorder_error", i, Null), onerror(Bundle, i))

\* a dataavailable event with data: of a recording MediaRecorder (every
\* timeslice) or of a stopped one before its stop event
DataAvailable ==
  \E i \in SessionIds :
    /\ mr[i].handlers
    /\ mr[i].state = "recording" \/ mr[i].stopQueued
    /\ rec.chunks < MaxChunks
    /\ Step(NoEvent, ondataavailable(Bundle))

\* time passes
ClockAdvance ==
  /\ now < MaxClock
  /\ Step(NoEvent, [Bundle EXCEPT !.now = @ + 1])

\* a caller of the recorder hook invokes pause()
PauseCall == Step(Event("pause", rec.state, Null), pause(Bundle))

\* a caller of the recorder hook invokes resume()
ResumeCall == Step(Event("resume", rec.state, Null), resume(Bundle))

\* a caller of the recorder hook invokes stop()
StopCall == Step(Event("stop", rec.state, Null), stop(Bundle))

\* the Start button is clicked while a start() waits for getUserMedia
ClickStartAgain ==
  /\ store.recordingState \in {"idle", "paused"}
  /\ Pending >= MaxPending /\ Pending < MaxOverlapping
  /\ Step(Event("start", hist.selectedRecordingId, Null), handleStart(Bundle))

\* the global hotkey fires while a start() waits for getUserMedia
HotkeyAgain ==
  /\ Pending >= MaxPending /\ Pending < MaxOverlapping
  /\ Step(NoEvent, handleHotkeyTriggered(Bundle))

\* the Retry Permission button is clicked while a start() waits for getUserMedia
RetryAgain ==
  /\ rec.permissionState = "denied"
  /\ Pending >= MaxPending /\ Pending < MaxOverlapping
  /\ Step(NoEvent, retryPermission(Bundle))

\* a start is triggered before an earlier one completed
StartOverlapping == ClickStartAgain \/ HotkeyAgain \/ RetryAgain

\* the observer counts a tick that happens while the timer is not paused
CountTick(s) == [s EXCEPT !.obs.ticks = IF tmr.isPaused THEN @ ELSE @ + 1]

\* the interval timer fired
Tick ==
  /\ tmr.timerOn
  /\ tmr.isPaused \/ store.elapsedSeconds < MaxElapsed
  /\ Step(Event("tick", Null, Null), CountTick(tick(Bundle)))

\* time passes up to the next clock reading; the interval timer's callback runs
\* at the reading one period after the timer was started or fired last
TimePasses ==
  /\ now < MaxTime
  /\ LET s1 == [Bundle EXCEPT !.now = @ + 1]
     IN IF tmr.timerOn /\ now + 1 = tmr.due
        THEN Step(Event("tick", Null, Null),
                  [CountTick(tick(s1)) EXCEPT !.tmr.due = @ + Second])
        ELSE Step(NoEvent, s1)

\* a saveRecording call returned
SaveReturned ==
  \E k \in 1..Len(fs.saves), ok \in BOOLEAN :
    Step(Event(IF ok THEN "saved" ELSE "save_failed", fs.saves[k].audio, Null),
         onSaved(Bundle, k, ok))

\* transcribeAudio resolved
TranscribeReturned ==
  /\ proc.pc = "transcribe"
  /\ \/ \E t \in TextsFor(proc.path) :
          Step(Event("transcribed", t, t),
               onTranscribed(Bundle, [success |-> TRUE, text |-> t, errorType |-> "null"]))
     \/ \E e \in ReportedErrorTypes :
          Step(Event("transcribe_failed", e, Null),
               onTranscribed(Bundle, [success |-> FALSE, text |-> Null, errorType |-> e]))
     \/ Step(Event("transcribe_failed", "null", Null),
             onTranscribed(Bundle, [success |-> TRUE, text |-> Null, errorType |-> "null"]))

\* transcribeAudio rejected
TranscribeThrew ==
  /\ proc.pc = "transcribe"
  /\ Step(Event("transcribe_failed", "thrown", Null), onTranscribeThrown(Bundle))

\* saveRecordingHistory returned to addRecording
HistorySaveReturned ==
  /\ proc.pc = "hist_save"
  /\ \E ok \in BOOLEAN : Step(NoEvent, onHistorySaved(Bundle, ok))

\* getHistory returned to the loadHistory inside addRecording
HistoryLoadReturned ==
  /\ proc.pc = "hist_load"
  /\ \E ok \in BOOLEAN : Step(NoEvent, onHistoryLoaded(Bundle, ok))

\* summarizeText resolved
SummarizeReturned ==
  /\ proc.pc = "summarize"
  /\ \E g \in Summaries :
       /\ g = SummaryOf(proc.text)
       /\ Step(Event("summarized", g, proc.text), onSummarized(Bundle, g))

\* summarizeText rejected
SummarizeThrew ==
  /\ proc.pc = "summarize"
  /\ Step(Event("summary_failed", Null, proc.text), onSummarizeThrown(Bundle))

\* updateHistorySummary returned
PersistReturned ==
  /\ proc.pc = "persist"
  /\ \E ok \in BOOLEAN :
       Step(Event(IF ok THEN "persisted" ELSE "persist_failed", proc.gen, proc.text),
            onSummaryPersisted(Bundle, ok))

\* getHistory returned to the loadHistory after updateHistorySummary
PersistReloadReturned ==
  /\ proc.pc = "persist_load"
  /\ \E ok \in BOOLEAN :
       Step(Event(IF ok THEN "reloaded" ELSE "reload_failed", proc.gen, proc.text),
            onPersistReloaded(Bundle, ok))

\* HistorySidebar renders the entries unless the history store is loading
ListShown == ~hist.isLoading

\* HistorySidebar: an entry was clicked
SelectHistoryItem ==
  /\ ListShown
  /\ \E r \in hist.recordings :
       Step(Event("selected", r.id, Null), selectRecording(Bundle, r.id))

\* HistoryItem: the delete of an entry was confirmed
DeleteRecording ==
  /\ ListShown
  /\ del.pc = "idle"
  /\ \E r \in hist.recordings :
       Step(Event("delete", r.id, Null), deleteRecording(Bundle, r.id))

\* deleteRecordingHistory returned to deleteRecording
DeleteReturned ==
  /\ del.pc = "delete"
  /\ \E ok \in BOOLEAN :
       Step(Event(IF ok THEN "deleted" ELSE "delete_failed", del.id, Null),
            onDeleted(Bundle, ok))

\* getHistory returned to the loadHistory inside deleteRecording, which ends it
DeleteReloadReturned ==
  /\ del.pc = "reload"
  /\ \E ok \in BOOLEAN :
       Step(Event(IF ok THEN "delete_done" ELSE "delete_not_reloaded", del.id, Null),
            onDeleteReloaded(Bundle, ok))

\* HistoryItem: the play button of an entry was clicked and audio.play() resolved
PlayItem ==
  /\ ListShown
  /\ \E r \in hist.recordings :
       /\ r.id # hist.playingRecordingId
       /\ Step(Event("play", r.id, Null), startPlayback(Bundle, r.id))

\* HistoryItem: the stop button was clicked, or the audio ended
StopItem ==
  /\ hist.playingRecordingId # Null
  /\ Step(NoEvent, stopPlayback(Bundle))

\* the settings dialog stored another maxDuration
SetMaxDuration ==
  \E m \in MaxDurations :
    /\ m # maxDuration
    /\ Step(NoEvent, [Bundle EXCEPT !.maxDuration = m])

\* the user, the hotkey and the recorder
Capture ==
  \/ ClickStart \/ ClickPause \/ ClickStop \/ Hotkey \/ ClickRetryPermission
  \/ AcquireGranted \/ AcquireRejected \/ RecorderStopped \/ RecorderFailed

\* the collaborators of the pipeline
Pipeline ==
  \/ SaveReturned
  \/ TranscribeReturned \/ TranscribeThrew \/ HistorySaveReturned \/ HistoryLoadReturned
  \/ SummarizeReturned \/ SummarizeThrew \/ PersistReturned \/ PersistReloadReturned
  \/ SelectHistoryItem

Next == Capture \/ Pipeline

\* capture and pipeline; the interval timer is slow (it does not fire) and the
\* budget stays as loaded
Spec == Init /\ [][Next]_vars

\* processRecording is triggered once more while a run holds the guard
Reentry ==
  /\ proc.isProcessing
  /\ \E path \in SessionIds :
       Step(Event("reentry", path, Null), processRecording(Bundle, path, 0))

NextReentry == Next \/ Reentry

\* Spec with duplicate triggers of processRecording
SpecReentry == Init /\ [][NextReentry]_vars

\* a caller of the recording store invokes clearTranscription
ClearTranscriptionCall ==
  Step(Event("clearTranscription", Null, Null), clearTranscription(Bundle))

\* a caller of the recording store invokes resetForNewRecording
ResetForNewRecordingCall ==
  Step(Event("resetForNewRecording", Null, Null), resetForNewRecording(Bundle))

\* record, stop, save and process: the buttons, the recorder and the pipeline's
\* collaborators, without pause, hotkey, history selection and recorder failures
Workflow ==
  \/ ClickStart \/ ClickStop \/ AcquireGranted \/ RecorderStopped
  \/ SaveReturned
  \/ TranscribeReturned \/ TranscribeThrew \/ HistorySaveReturned \/ HistoryLoadReturned
  \/ SummarizeReturned \/ SummarizeThrew \/ PersistReturned \/ PersistReloadReturned

\* a collaborator call of the run in flight returns or throws
PipelineReturns ==
  \/ TranscribeReturned \/ TranscribeThrew \/ HistorySaveReturned \/ HistoryLoadReturned
  \/ SummarizeReturned \/ SummarizeThrew \/ PersistReturned \/ PersistReloadReturned

NextReturns == Workflow \/ Hotkey \/ SelectHistoryItem

\* the workflow with the hotkey and the sidebar, in which every collaborator call
\* of processRecording returns or throws
SpecReturns == Init /\ [][NextReturns]_vars /\ WF_vars(PipelineReturns)

NextStore == Workflow \/ ClearTranscriptionCall \/ ResetForNewRecordingCall

\* the workflow with the recording store's reset actions called at any time
SpecStore == Init /\ [][NextStore]_vars

NextHistory ==
  \/ Workflow \/ SelectHistoryItem \/ PlayItem \/ StopItem
  \/ DeleteRecording \/ DeleteReturned \/ DeleteReloadReturned

\* the workflow with the sidebar: entries are selected, played and deleted
SpecHistory == Init /\ [][NextHistory]_vars

\* capture with the hotkey handler's wait for focusWindow(); every pipeline run
\* ends at transcribeAudio
NextHotkey == Capture \/ HotkeyPressed \/ FocusReturned \/ SaveReturned \/ TranscribeThrew

SpecHotkey == Init /\ [][NextHotkey]_vars

\* capture with every kind of acquisition failure; every pipeline run ends at
\* transcribeAudio
NextAcquire == Capture \/ AcquireFailed \/ SaveReturned \/ TranscribeThrew

SpecAcquire == Init /\ [][NextAcquire]_vars

\* capture with starts triggered during a start; every pipeline run ends at
\* transcribeAudio
NextOverlap == Capture \/ StartOverlapping \/ SaveReturned \/ TranscribeThrew

SpecOverlap == Init /\ [][NextOverlap]_vars

\* the recorder hook: the Start button, clicked also during a start, the
\* recorder's events with data chunks, the clock, and pause(), resume() and
\* stop() called in any state; every pipeline run ends at transcribeAudio
NextRecorder ==
  \/ ClickStart \/ ClickStartAgain \/ AcquireGranted \/ AcquireRejected
  \/ RecorderStopped \/ RecorderFailed \/ DataAvailable \/ ClockAdvance
  \/ PauseCall \/ ResumeCall \/ StopCall
  \/ SaveReturned \/ TranscribeThrew

SpecRecorder == Init /\ [][NextRecorder]_vars

\* the interval timer follows the clock: one session recorded, paused, resumed
\* and stopped
NextClock ==
  ClickStart \/ AcquireGranted \/ ClickPause \/ ClickStop \/ RecorderStopped \/ TimePasses

SpecClock == Init /\ [][NextClock]_vars

\* the duration hook with capture; every pipeline run ends at transcribeAudio
NextTimer == Capture \/ Tick \/ SetMaxDuration \/ SaveReturned \/ TranscribeThrew

SpecTimer == Init /\ [][NextTimer]_vars

(***************************************************************************)
(* Claims                                                                   *)
(***************************************************************************)
\* C1: a processRecording invocation made while a run holds the guard changes
\* nothing (store, run, history, recorder, saves) and calls transcribeAudio no
\* further time: the run's path has been transcribed exactly once.
C1_ReentryNoOp ==
  [][obs'.event.kind = "reentry" =>
       /\ store' = store /\ proc' = proc /\ hist' = hist /\ db' = db
       /\ rec' = rec /\ fs' = fs /\ tmr' = tmr
       /\ obs'.transcribeCalls = obs.transcribeCalls
       /\ obs'.transcribeCalls[proc.path] = 1]_vars

\* C1 witness: a second invocation arrived while the first awaited summarizeText
C1_Witness ==
  /\ obs.event.kind = "reentry"
  /\ proc.isProcessing /\ proc.pc = "summarize"
  /\ obs.transcribeCalls[proc.path] = 1

\* C2: every capture session whose save succeeded has had processRecording
\* started (its guard passed, transcribeAudio called) exactly once, and no
\* session has it started twice, however often saveAndProcess re-ran.
C2_ProcessedOnce ==
  \A i \in SessionIds :
    /\ obs.transcribeCalls[i] <= 1
    /\ i \in obs.saved => obs.transcribeCalls[i] = 1

\* C2 witness: a session was saved, its run has ended and a later session exists
C2_Witness ==
  /\ 1 \in obs.saved /\ obs.transcribeCalls[1] = 1
  /\ ~proc.isProcessing /\ ids.sessions = 2

\* C3: within a timer session (startTimer to the next startTimer) onAutoStop is
\* invoked at most once, and it has been invoked once whenever elapsedSeconds
\* has reached the budget.
C3_AutoStopOnce ==
  /\ obs.autoStops <= 1
  /\ maxDurationReached(Bundle) => obs.autoStops = 1

ActiveStates == {"recording", "paused"}

C5_LoadingNeedsSuccess ==
  store.summaryState = "loading" => store.transcriptionState = "success"

\* C6: transcriptionState moves only idle -> transcribing -> success | error,
\* and back to idle; it never becomes transcribing from success or error and
\* never becomes success or error from anything but transcribing.
C6_ForwardOnly ==
  [][\/ store'.transcriptionState = store.transcriptionState
     \/ store'.transcriptionState = "idle"
     \/ store.transcriptionState = "idle" /\ store'.transcriptionState = "transcribing"
     \/ /\ store.transcriptionState = "transcribing"
        /\ store'.transcriptionState \in {"success", "error"}]_vars

ReportedKind(a) == IF a \in {"null", "thrown"} THEN "unknown" ELSE a

\* C7: when transcribeAudio reports failure or throws, the run ends at once with
\* transcriptionState error carrying the reported kind, recorder and store back
\* to idle, no history entry created and summarization not started.
C7_TranscribeFailure ==
  [][obs'.event.kind = "transcribe_failed" =>
       /\ store'.transcriptionState = "error"
       /\ store'.transcriptionError.type = ReportedKind(obs'.event.arg)
       /\ store'.recordingState = "idle" /\ rec'.state = "idle"
       /\ db' = db /\ hist' = hist /\ ids'.created = ids.created
       /\ proc' = IdleRun
       /\ store'.summaryState = store.summaryState /\ store'.summary = store.summary]_vars

\* C7 witness: a reported network error ended a run while a stopped session was shown
C7_Witness ==
  /\ obs.event.kind = "transcribe_failed" /\ obs.event.arg = "network_error"
  /\ store.transcriptionState = "error" /\ store.transcriptionError.retryable
  /\ rec.state = "idle" /\ ~proc.isProcessing

\* the run just ended on its success path
RunCompleted ==
  /\ obs.event.kind \in {"summarized", "persist_failed", "reloaded", "reload_failed"}
  /\ ~proc.isProcessing

\* C8: a run whose transcription and summarization both succeeded ends with
\* summaryState success, summary the returned text, summarySourceText the run's
\* transcribed text, and transcription / transcriptionState success still set.
C8_CompleteRun ==
  RunCompleted =>
    /\ store.summaryState = "success"
    /\ store.summary = obs.event.arg
    /\ store.summarySourceText = obs.event.text
    /\ store.transcription = obs.event.text
    /\ store.transcriptionState = "success"

\* C9: when summarizeText fails, the step sets summaryState error and
\* summaryError, and leaves transcription, transcriptionState,
\* transcriptionError and the history (store and backend) unchanged.
C9_SummaryFailure ==
  [][obs'.event.kind = "summary_failed" =>
       /\ store'.summaryState = "error" /\ store'.summaryError # Null
       /\ store'.transcription = store.transcription
       /\ store'.transcriptionState = store.transcriptionState
       /\ store'.transcriptionError = store.transcriptionError
       /\ db' = db /\ hist' = hist]_vars

\* C9 witness: summarization failed after a successful transcription whose
\* history entry exists
C9_Witness ==
  /\ obs.event.kind = "summary_failed"
  /\ store.summaryState = "error" /\ store.transcriptionState = "success"
  /\ store.transcription = obs.event.text
  /\ \E r \in db : r.transcription = obs.event.text

\* C10: when persisting the generated summary fails (updateHistorySummary or
\* the reload), the step leaves summary, summaryState, summaryError and
\* summarySourceText as they were and puts neither state into error.
C10_PersistFailure ==
  [][obs'.event.kind \in {"persist_failed", "reload_failed"} =>
       /\ store'.summary = store.summary
       /\ store'.summaryState = store.summaryState
       /\ store'.summaryError = store.summaryError
       /\ store'.summarySourceText = store.summarySourceText
       /\ store'.transcriptionState = store.transcriptionState
       /\ store'.transcriptionError = store.transcriptionError
       /\ store'.recordingState = "idle"]_vars

\* C10 witness: updateHistorySummary rejected and the generated summary is shown
C10_Witness ==
  /\ obs.event.kind = "persist_failed"
  /\ store.summaryState = "success" /\ store.summary = obs.event.arg
  /\ store.summarySourceText = obs.event.text

\* a run is in flight for a session that handleStart has superseded: the store's
\* filePath is no longer the path the run was started with
Superseded == proc.isProcessing /\ store.filePath # proc.path

ResultKinds == {"transcribed", "transcribe_failed", "summarized", "summary_failed"}

\* C11: a transcription or summarization result that arrives for a superseded
\* session changes neither the capture state, the transcription, the summary
\* nor the recorder.
C11_LateResultIgnored ==
  [][(Superseded /\ obs'.event.kind \in ResultKinds) =>
       /\ store'.recordingState = store.recordingState
       /\ store'.transcription = store.transcription
       /\ store'.transcriptionState = store.transcriptionState
       /\ store'.transcriptionError = store.transcriptionError
       /\ store'.summary = store.summary
       /\ store'.summaryState = store.summaryState
       /\ rec' = rec]_vars

\* C12: a displayed summary is the selected entry's own stored summary or a
\* live summary whose summarySourceText is the displayed transcription.
C12_SummaryOfDisplayed ==
  displaySummary(Bundle) # Null =>
    \/ /\ hasSelectedRecordingWithSummary(Bundle)
       /\ displaySummary(Bundle) = selectedRecording(Bundle).summary
    \/ /\ displaySummary(Bundle) = store.summary
       /\ store.summarySourceText = displayTranscription(Bundle)

\* C13: with a selected entry that has a persisted summary and a successful
\* live summary, the live summary is displayed exactly when its
\* summarySourceText is the entry's transcription; otherwise the entry's.
C13_TieBreak ==
  (hasSelectedRecordingWithSummary(Bundle) /\ hasFreshSummary(Bundle)) =>
    displaySummary(Bundle) =
      IF store.summarySourceText = selectedRecording(Bundle).transcription
      THEN store.summary
      ELSE selectedRecording(Bundle).summary

\* C14: a selected entry found in recordings is displayed with its own
\* transcription, state success and no error; without one the live store's
\* transcription and transcriptionState are displayed.
C14_DisplayedTranscription ==
  IF /\ hist.selectedRecordingId # Null
     /\ \E r \in hist.recordings : r.id = hist.selectedRecordingId
  THEN \E r \in hist.recordings :
         /\ r.id = hist.selectedRecordingId
         /\ displayTranscription(Bundle) = r.transcription
         /\ displayTranscriptionState(Bundle) = "success"
         /\ displayTranscriptionError(Bundle) = NoError
  ELSE /\ displayTranscription(Bundle) = store.transcription
       /\ displayTranscriptionState(Bundle) = store.transcriptionState

\* C14 witness: an entry is selected and displayed while the live store holds
\* the transcription error of a later session
C14_Witness ==
  /\ \E r \in hist.recordings : r.id = hist.selectedRecordingId
  /\ store.transcriptionState = "error"
  /\ displayTranscriptionState(Bundle) = "success"

\* C15: selecting a history entry leaves no loading summary state and no live
\* summary but the entry's own; selectRecording(null) resets summary,
\* summaryState, summaryError and summarySourceText, from any state.
C15_SelectClearsLiveSummary ==
  /\ [](LET s2 == selectRecording(Bundle, Null)
        IN /\ s2.hist.selectedRecordingId = Null
           /\ s2.store.summary = Null /\ s2.store.summaryState = "idle"
           /\ s2.store.summaryError = Null /\ s2.store.summarySourceText = Null)
  /\ [][obs'.event.kind = "selected" =>
          (LET e == FindRecording(hist.recordings, obs'.event.arg)
           IN /\ hist'.selectedRecordingId = e.id
              /\ store'.summaryState # "loading"
              /\ (store'.summary # Null =>
                    (/\ store'.summary = e.summary
                     /\ store'.summarySourceText = e.transcription)))]_vars

\* C15 witness: an entry was selected while summarizeText was awaited, and the
\* loading state is gone
C15_Witness ==
  /\ obs.event.kind = "selected" /\ proc.pc = "summarize"
  /\ store.summaryState = "idle" /\ store.summary = Null

\* the four summary fields of s are at their initial values
SummaryCleared(s) ==
  /\ s.store.summary = Null /\ s.store.summaryState = "idle"
  /\ s.store.summaryError = Null /\ s.store.summarySourceText = Null

\* C16 as stated: with a history entry selected, resetForNewRecording leaves
\* selectedRecordingId null, the live summary cleared and the entries unchanged.
C16_ResetClearsSelection ==
  hist.selectedRecordingId # Null =>
    LET s2 == resetForNewRecording(Bundle)
    IN /\ s2.hist.selectedRecordingId = Null
       /\ SummaryCleared(s2)
       /\ s2.hist.recordings = hist.recordings /\ s2.db = db

\* C16 amended: with a history entry selected, the start of a new recording
\* (handleStart) leaves selectedRecordingId null, the live summary cleared and
\* the entries, in the store and in the backend, unchanged; and every step in
\* which the selection goes away does so.
C16_StartClearsSelection ==
  /\ [](hist.selectedRecordingId # Null =>
          LET s2 == handleStart(Bundle)
          IN /\ s2.hist.selectedRecordingId = Null
             /\ SummaryCleared(s2)
             /\ s2.hist.recordings = hist.recordings /\ s2.db = db)
  /\ [][(hist.selectedRecordingId # Null /\ hist'.selectedRecordingId = Null) =>
          (/\ store'.summary = Null /\ store'.summaryState = "idle"
           /\ store'.summaryError = Null /\ store'.summarySourceText = Null
           /\ hist'.recordings = hist.recordings /\ db' = db)]_vars

\* C16 witness: Start was pressed while an entry with a stored summary was
\* selected; the selection and the live summary are gone, the entry is as it was
C16_Witness ==
  /\ obs.event.kind = "start" /\ obs.event.arg # Null
  /\ hist.selectedRecordingId = Null /\ store.summary = Null
  /\ \E r \in hist.recordings : r.id = obs.event.arg /\ r.summary # Null

\* C17: clearTranscription resets transcription, transcriptionState,
\* transcriptionError and the four summary fields and leaves filePath,
\* audioResult, elapsedSeconds, warningTriggered and recordingState as they
\* were; no summary is left without its transcription.
C17_ClearTranscriptionFrame ==
  [][obs'.event.kind = "clearTranscription" =>
       /\ store'.transcription = Null /\ store'.transcriptionState = "idle"
       /\ store'.transcriptionError = NoError
       /\ store'.summary = Null /\ store'.summaryState = "idle"
       /\ store'.summaryError = Null /\ store'.summarySourceText = Null
       /\ store'.filePath = store.filePath
       /\ store'.audioResult = store.audioResult
       /\ store'.elapsedSeconds = store.elapsedSeconds
       /\ store'.warningTriggered = store.warningTriggered
       /\ store'.recordingState = store.recordingState]_vars

\* C17 witness: clearTranscription was called after a failed transcription;
\* the saved file is still there for a retry
C17_Witness ==
  /\ obs.event.kind = "clearTranscription"
  /\ store.transcriptionState = "idle" /\ store.filePath # Null
  /\ obs.transcribeCalls[store.filePath] = 1 /\ db = {}
  /\ ~proc.isProcessing

\* C18: resetForNewRecording sets recordingState idle, elapsedSeconds 0,
\* warningTriggered false, audioResult and filePath null and the summary
\* fields idle/null, and leaves transcription, transcriptionState and
\* transcriptionError as they were.
C18_ResetForNewRecordingFrame ==
  [][obs'.event.kind = "resetForNewRecording" =>
       (LET s2 == resetForNewRecording(Bundle)
        IN /\ s2.store.recordingState = "idle" /\ s2.store.elapsedSeconds = 0
           /\ ~s2.store.warningTriggered
           /\ s2.store.audioResult = Null /\ s2.store.filePath = Null
           /\ SummaryCleared(s2)
           /\ s2.store.transcription = store.transcription
           /\ s2.store.transcriptionState = store.transcriptionState
           /\ s2.store.transcriptionError = store.transcriptionError
           /\ store'.summary = Null /\ store'.summaryState = "idle"
           /\ store'.elapsedSeconds = 0 /\ ~store'.warningTriggered
           /\ store'.transcription = store.transcription
           /\ store'.transcriptionState = store.transcriptionState
           /\ store'.transcriptionError = store.transcriptionError)]_vars

\* C18 witness: resetForNewRecording was called after a completed run; the
\* transcription is still shown and the summary is gone
C18_Witness ==
  /\ obs.event.kind = "resetForNewRecording"
  /\ store.transcriptionState = "success" /\ store.transcription # Null
  /\ store.summary = Null /\ store.filePath = Null
  /\ \E r \in db : r.summary # Null

\* the step called the start handler for a new session: start() went to getUserMedia
StartCalled == pend'.handleStart = pend.handleStart + 1

\* the step called the stop handler: the interval timer is cleared, and the
\* stop event of the referenced recorder, if it is active, is queued
StopCalled ==
  /\ ~tmr'.timerOn
  /\ (rec.mediaRecorderRef # Null /\ mr[rec.mediaRecorderRef].state \in {"recording", "paused"})
        => mr'[rec.mediaRecorderRef].stopQueued

NoDeviceHeld ==
  /\ rec'.streamRef = Null /\ rec'.mediaRecorderRef = Null
  /\ streams' \subseteq streams \ {rec.streamRef}

RecorderUnchanged == rec' = rec /\ mr' = mr /\ streams' = streams

\* C21: pause() called while the recorder state is not recording, resume()
\* while it is not paused and stop() while it is neither recording nor paused
\* leave the capture state, the buffered chunks, the pause bookkeeping, the
\* stream and the MediaRecorder as they were.
C21_NoEffectInOtherStates ==
  [][(\/ obs'.event.kind = "pause" /\ rec.state # "recording"
      \/ obs'.event.kind = "resume" /\ rec.state # "paused"
      \/ obs'.event.kind = "stop" /\ rec.state \notin {"recording", "paused"})
       => RecorderUnchanged]_vars

\* the MediaRecorder objects that are recording or paused
ActiveRecorders == {i \in SessionIds : mr[i].state \in {"recording", "paused"}}

\* C22: at most one MediaRecorder is active, at most one media stream has live
\* tracks, and a stream with live tracks is the one the hook references.
C22_OneSessionOneStream ==
  /\ Cardinality(ActiveRecorders) <= 1
  /\ Cardinality(streams) <= 1
  /\ streams \subseteq {rec.streamRef}

\* C23: after the error event of an active MediaRecorder the hook is idle with
\* the error set, references no stream and no MediaRecorder, and no stream,
\* the failed session's included, has live tracks.
C23_ErrorReleasesDevice ==
  [][obs'.event.kind = "recorder_error" =>
       /\ rec'.state = "idle" /\ rec'.error # "none"
       /\ rec'.streamRef = Null /\ rec'.mediaRecorderRef = Null
       /\ obs'.event.arg \notin streams'
       /\ streams' = {}]_vars

\* the capture has stopped with an audioResult whose blob holds data
StoppedWithPayload ==
  /\ rec.state = "stopped"
  /\ rec.audioResult # Null /\ mr[rec.audioResult].blob > 0

\* C24: filePath is set exactly while the capture state is stopped and the
\* capture produced a blob that is not empty.
C24_PersistedIffStoppedNonEmpty == (store.filePath # Null) <=> StoppedWithPayload

\* the time the capture has been recording: from its start to now, without the
\* paused intervals, in clock readings
ActiveTime ==
  now - rec.startTime - rec.pausedDuration
    - (IF rec.state = "paused" THEN now - rec.pauseStart ELSE 0)

\* the referenced MediaRecorder is recording or paused
RecorderActive ==
  rec.mediaRecorderRef # Null /\ mr[rec.mediaRecorderRef].state \in {"recording", "paused"}

\* C25: when Stop is clicked on an active capture, elapsedSeconds is the number
\* of whole seconds in the time from the start to the stop minus the paused
\* intervals.
C25_ElapsedIsActiveTime ==
  [][(obs'.event.kind = "stop_click" /\ RecorderActive) =>
       /\ store'.elapsedSeconds * Second <= ActiveTime
       /\ ActiveTime < (store'.elapsedSeconds + 1) * Second]_vars

\* C26: a tick while the timer is paused leaves elapsedSeconds as it is, a tick
\* while it is not paused adds one; resuming leaves the counter at the frozen
\* value; elapsedSeconds is the number of ticks that occurred while not paused.
C26_PausedTicksNotCounted ==
  /\ [][obs'.event.kind = "tick" =>
          store'.elapsedSeconds = store.elapsedSeconds + (IF tmr.isPaused THEN 0 ELSE 1)]_vars
  /\ [][(obs'.event.kind = "start" /\ store.recordingState = "paused") =>
          (store'.elapsedSeconds = store.elapsedSeconds /\ ~tmr'.isPaused)]_vars
  /\ [](store.elapsedSeconds = obs.ticks)

\* C26 witness: after a counted tick the timer was paused and ticked again
C26_Witness ==
  /\ obs.event.kind = "tick" /\ tmr.isPaused /\ tmr.timerOn
  /\ store.elapsedSeconds = 1 /\ store.recordingState = "paused"

\* the budget B in ticks
Budget == maxDuration * MinuteTicks

\* C27: showWarning is true exactly when elapsedSeconds >= 0.8 B,
\* maxDurationReached exactly when elapsedSeconds >= B, and remainingSeconds
\* is B - elapsedSeconds, or 0 when that is negative; while the timer runs
\* from 0.8 B to below B the warning is shown and auto-stop has not fired, and
\* the tick that reaches B fires auto-stop once and ends the timer.
C27_DerivedValues ==
  /\ [](/\ showWarning(Bundle) <=> (10 * store.elapsedSeconds >= 8 * Budget)
        /\ maxDurationReached(Bundle) <=> (store.elapsedSeconds >= Budget)
        /\ remainingSeconds(Bundle) + store.elapsedSeconds
             = IF store.elapsedSeconds > Budget THEN store.elapsedSeconds ELSE Budget
        /\ (tmr.timerOn /\ 10 * store.elapsedSeconds >= 8 * Budget
              /\ store.elapsedSeconds < Budget)
             => (showWarning(Bundle) /\ obs.autoStops = 0))
  /\ [][obs'.event.kind = "tick" =>
          /\ (store'.elapsedSeconds < Budget') => obs'.autoStops = obs.autoStops
          /\ (store.elapsedSeconds < Budget /\ store'.elapsedSeconds >= Budget')
               => (obs.autoStops = 0 /\ obs'.autoStops = 1 /\ ~tmr'.timerOn)]_vars

\* C27 witness: with a budget of one minute a recording has reached 80% of it
\* to the tick: the warning is shown, the timer runs, auto-stop has not fired
C27_Witness ==
  /\ maxDuration = 1 /\ obs.event.kind = "tick"
  /\ 10 * store.elapsedSeconds = 8 * Budget
  /\ showWarning(Bundle) /\ ~maxDurationReached(Bundle)
  /\ remainingSeconds(Bundle) = Budget - store.elapsedSeconds
  /\ rec.state = "recording" /\ tmr.timerOn /\ obs.autoStops = 0

\* C28: after Pause or Stop no interval is scheduled, and a tick adds to
\* elapsedSeconds only while a capture is recording.
C28_TickCancelled ==
  /\ [][obs'.event.kind \in {"pause_click", "stop_click"} => ~tmr'.timerOn]_vars
  /\ [][(obs'.event.kind = "tick" /\ store'.elapsedSeconds # store.elapsedSeconds)
          => rec.state = "recording"]_vars

\* C29: in a step that takes the recorder state from idle or stopped to
\* recording, selectedRecordingId ends null.
C29_NoSelectionAtSessionStart ==
  [][(rec.state \in {"idle", "stopped"} /\ rec'.state = "recording")
       => hist'.selectedRecordingId = Null]_vars


\* at the step in which the backend's deletion of obs'.event.arg returned:
\* selection and playback are null if they were that entry's, unchanged otherwise,
\* and the live summary is cleared if the entry was selected
C30_AtDeletion ==
  [][obs'.event.kind = "deleted" =>
       LET id == obs'.event.arg
       IN /\ hist'.selectedRecordingId =
               IF hist.selectedRecordingId = id THEN Null ELSE hist.selectedRecordingId
          /\ hist'.playingRecordingId =
               IF hist.playingRecordingId = id THEN Null ELSE hist.playingRecordingId
          /\ hist.selectedRecordingId = id => SummaryCleared([store |-> store'])]_vars

\* at the step in which deleteRecording(obs'.event.arg) ends, the backend's
\* deletion done, neither selection nor playback is that entry
C30_NotReferenced ==
  [][obs'.event.kind \in {"delete_done", "delete_not_reloaded"} =>
       /\ hist'.selectedRecordingId # obs'.event.arg
       /\ hist'.playingRecordingId # obs'.event.arg]_vars

\* at the step in which deleteRecording(obs'.event.arg) ends, the backend's
\* deletion done, recordings does not contain that entry
C30_NotListed ==
  [][obs'.event.kind \in {"delete_done", "delete_not_reloaded"} =>
       \A r \in hist'.recordings : r.id # obs'.event.arg]_vars

\* C30: after deleteRecording(id) completed with the backend's deletion done,
\* selectedRecordingId and playingRecordingId differ from id (null if they were
\* id, unchanged otherwise), the live summary is cleared if the deleted entry
\* was selected, and recordings no longer contains id
C30_DeleteRecording == C30_AtDeletion /\ C30_NotReferenced /\ C30_NotListed

\* C31: a step that increases elapsedSeconds starts in capture state 'recording'.
C31_CountsOnlyWhileRecording ==
  [][store'.elapsedSeconds > store.elapsedSeconds
       => store.recordingState = "recording"]_vars

\* C32: the transcription error a failed run records is retryable exactly if its
\* kind is network_error or rate_limit_exceeded.
C32_RetryableKinds ==
  [][obs'.event.kind = "transcribe_failed" =>
       (store'.transcriptionError.retryable
          <=> store'.transcriptionError.type \in {"network_error", "rate_limit_exceeded"})]_vars

\* C33: a run that holds the guard finishes; the step that releases the guard
\* leaves the run idle and the capture state and the recorder 'idle', whichever
\* path the run took.
C33_RunFinishes ==
  /\ proc.isProcessing ~> ~proc.isProcessing
  /\ [][(proc.isProcessing /\ ~proc'.isProcessing) =>
          /\ proc' = IdleRun
          /\ store'.recordingState = "idle" /\ rec'.state = "idle"]_vars

\* C33 witness: a run ended on the summary-failure path, after its history
\* entry was created
C33_Witness ==
  /\ obs.event.kind = "summary_failed"
  /\ ~proc.isProcessing /\ store.recordingState = "idle"
  /\ store.summaryState = "error" /\ db # {}

\* C34: the step in which updateHistorySummary stored a run's summary creates no
\* history entry and changes no entry but the one the run created.
C34_SummaryOnOwnEntry ==
  [][obs'.event.kind = "persisted" =>
       /\ {r.id : r \in db'} = {r.id : r \in db}
       /\ \A r \in db' \ db : r.id = proc.newId]_vars

\* C35: while a capture session is recording or paused, the budget the warning
\* and auto-stop thresholds are computed from does not change.
C35_BudgetFixedInSession ==
  [][(store.recordingState \in ActiveStates /\ store'.recordingState \in ActiveStates)
       => maxDuration' * MinuteTicks = Budget]_vars

\* C36: in a step that takes the recorder from idle or stopped to recording, the
\* store holds nothing of an earlier session: no elapsed time, warning, audio,
\* file path, transcription or summary.
C36_FreshSession ==
  [][(rec.state \in {"idle", "stopped"} /\ rec'.state = "recording") =>
       /\ store'.elapsedSeconds = 0 /\ ~store'.warningTriggered
       /\ store'.audioResult = Null /\ store'.filePath = Null
       /\ store'.transcription = Null /\ store'.transcriptionState = "idle"
       /\ store'.summary = Null /\ store'.summaryState = "idle"]_vars

\* C37: the step in which a saveRecording call failed starts no further
\* saveRecording call for the same audio and leaves filePath null.
C37_FailedSaveNotRetried ==
  [][obs'.event.kind = "save_failed" =>
       /\ \A k \in 1..Len(fs'.saves) : fs'.saves[k].audio # obs'.event.arg
       /\ store'.filePath = Null]_vars

\* C38: while the recorder is in 'recording' and its MediaRecorder records, the
\* interval timer is scheduled and not paused, so that the session is counted
\* up to its auto-stop.
C38_RecordingIsTimed ==
  (/\ rec.state = "recording"
   /\ rec.mediaRecorderRef # Null
   /\ mr[rec.mediaRecorderRef].state = "recording")
    => tmr.timerOn /\ ~tmr.isPaused

\* C39: in a step during which processRecording holds its guard, the recorder
\* and the capture state do not enter 'recording'.
C39_NoStartWhileProcessing ==
  [][(proc.isProcessing /\ proc'.isProcessing) =>
       /\ rec.state # "recording" => rec'.state # "recording"
       /\ store.recordingState # "recording" => store'.recordingState # "recording"]_vars

\* C40: with the budget unchanged, no tick takes elapsedSeconds from within the
\* budget to beyond it.
C40_WithinBudget ==
  [][(/\ obs'.event.kind = "tick"
      /\ maxDuration' = maxDuration
      /\ store.elapsedSeconds <= Budget) => store'.elapsedSeconds <= Budget]_vars
====
